---- MODULE Spec2Model ----
(***************************************************************************)
(* State-machine model of blast_project.py: the BLAST table loader, the    *)
(* two hit lists, the set comparison, the row selection of the heat-map    *)
(* and the FASTA iterator / sequence extractor, driven by main().          *)
(*                                                                         *)
(* Text is modelled as sequences of one-character strings; a file is the   *)
(* sequence of its lines, each line without its trailing newline.          *)
(* Percent identities are whole percents; e-values are counted in units    *)
(* of 1e-9 (so 1e-7 is 100).  Only the three table columns the program     *)
(* reads (subject_ID, %identity, evalue) are carried.                      *)
(***************************************************************************)
EXTENDS Integers, Sequences, FiniteSets, TLC

\* ---------------------------------------------------------------- bounds
MaxRows == 3
MaxLines == 4

\* ------------------------------------------------------------- constants
IDENTITY_THRESHOLD == 35
EVALUE_THRESHOLD == 100
LINE_WIDTH == 60
\* the missing marker produced by pd.to_numeric(errors="coerce")
NaN == -1

\* ------------------------------------------------------------ text tools
Range(s) == {s[i] : i \in 1..Len(s)}

Rep(c, n) == [i \in 1..n |-> c]

Front(s) == SubSeq(s, 1, Len(s) - 1)

Last(s) == s[Len(s)]

RECURSIVE Join(_)
\* "".join(seq_lines)
Join(ls) == IF ls = <<>> THEN <<>> ELSE Head(ls) \o Join(Tail(ls))

\* str.split() separators that occur in the modelled headers
IsSpace(c) == c \in {" ", "\t"}

RECURSIVE LStrip(_)
LStrip(s) == IF s # <<>> /\ IsSpace(Head(s)) THEN LStrip(Tail(s)) ELSE s

RECURSIVE TakeWord(_)
TakeWord(s) ==
  IF s = <<>> \/ IsSpace(Head(s)) THEN <<>> ELSE <<Head(s)>> \o TakeWord(Tail(s))

RECURSIVE Split(_)
\* header.split(): the maximal runs of non-whitespace characters, in order
Split(s) ==
  LET t == LStrip(s)
      w == TakeWord(t)
  IN IF t = <<>> THEN <<>>
     ELSE <<w>> \o Split(SubSeq(t, Len(w) + 1, Len(t)))

\* line.startswith(">")
StartsWithMarker(line) == line # <<>> /\ Head(line) = ">"

\* ------------------------------------------------------- table contents
S1 == <<"S", "1">>
S2 == <<"S", "2">>
S3 == <<"S", "3">>

\* raw text of the two numeric fields as it stands in the input table:
\* two subjects with every kind of field, missing ones included ...
RawRows ==
  [subject_ID : {S1, S2},
   identity : {"30.0", "35.0", "n/a"},
   evalue : {"1e-07", "1e-05", "n/a"}]

\* ... and three subjects with well-formed fields
WideRows ==
  [subject_ID : {S1, S2, S3},
   identity : {"30.0", "40.0"},
   evalue : {"1e-07", "1e-05"}]

RawTables ==
  UNION {[1..n -> RawRows] : n \in 0..MaxRows}
    \cup UNION {[1..n -> WideRows] : n \in 0..MaxRows}

\* pd.to_numeric(..., errors="coerce") on one field
ToNumeric(tok) ==
  CASE tok = "30.0" -> 30
    [] tok = "35.0" -> 35
    [] tok = "40.0" -> 40
    [] tok = "1e-07" -> 100
    [] tok = "1e-05" -> 10000
    [] OTHER -> NaN

LoadRow(r) ==
  [subject_ID |-> r.subject_ID,
   identity |-> ToNumeric(r.identity),
   evalue |-> ToNumeric(r.evalue)]

\* df["%identity"] >= IDENTITY_THRESHOLD : a comparison with NaN is False
GeIdentity(x) == x # NaN /\ x >= IDENTITY_THRESHOLD

\* a variant that compares the missing marker like a number
LeEvalueNoNaN(x) == x <= EVALUE_THRESHOLD
\* df["evalue"] <= EVALUE_THRESHOLD : a comparison with NaN is False
LeEvalue(x) == x # NaN /\ x <= EVALUE_THRESHOLD

\* the row positions a boolean mask selects
MaskIdentity(t) == {i \in 1..Len(t) : GeIdentity(t[i].identity)}
MaskEvalue(t) == {i \in 1..Len(t) : LeEvalue(t[i].evalue)}

RECURSIVE Pick(_, _, _)
\* df.loc[mask, "subject_ID"] : the selected rows' subjects, in table order
Pick(t, mask, i) ==
  IF i > Len(t) THEN <<>>
  ELSE (IF i \in mask THEN <<t[i].subject_ID>> ELSE <<>>) \o Pick(t, mask, i + 1)

\* a variant that keeps every occurrence
UniqueKeepAll(s) == s
RECURSIVE Unique(_)
\* Series.unique(): values in order of first appearance
Unique(s) ==
  IF s = <<>> THEN <<>>
  ELSE LET r == Unique(Front(s))
       IN IF Last(s) \in Range(r) THEN r ELSE Append(r, Last(s))

\* compare_lists
CommonOf(a, b) == a \cap b
\* a variant that forgets the difference
OnlyAWhole(a, b) == a
OnlyAOf(a, b) == a \ b
OnlyBOf(a, b) == b \ a

\* ------------------------------------------------------ heat-map rows
\* df[df["subject_ID"].isin(shared_ids)]
IsIn(t, ids) == SelectSeq(t, LAMBDA r : r.subject_ID \in ids)

RECURSIVE DropDuplicatesLast(_)
\* a variant with keep="last"
DropDuplicatesLast(t) ==
  IF t = <<>> THEN <<>>
  ELSE LET r == DropDuplicatesLast(Tail(t))
       IN IF \E j \in 1..Len(r) : r[j].subject_ID = Head(t).subject_ID
          THEN r ELSE <<Head(t)>> \o r

RECURSIVE DropDuplicates(_)
\* drop_duplicates("subject_ID") : keep="first"
DropDuplicates(t) ==
  IF t = <<>> THEN <<>>
  ELSE LET r == DropDuplicates(Front(t))
       IN IF \E j \in 1..Len(r) : r[j].subject_ID = Last(t).subject_ID
          THEN r ELSE Append(r, Last(t))

\* x must come before y in sort_values(ascending=False): NaN sorts last
Precedes(x, y) == x # NaN /\ (y = NaN \/ x > y)

Perms(n) == {f \in [1..n -> 1..n] : \A i, j \in 1..n : i # j => f[i] # f[j]}

\* sort_values("%identity", ascending=False) with the default kind
\* ("quicksort"), which gives no guarantee on the order of equal keys:
\* every arrangement in key order is a possible result
\* (rows with a NaN key are appended after the sort, in table order)
SortValues(t) ==
  {[i \in 1..Len(t) |-> t[f[i]]] : f \in
     {g \in Perms(Len(t)) :
        \A i, j \in 1..Len(t) :
          i < j => /\ ~Precedes(t[g[j]].identity, t[g[i]].identity)
                   /\ (t[g[i]].identity = NaN /\ t[g[j]].identity = NaN
                         => g[i] < g[j])}}

\* --------------------------------------------------------- FASTA writer
RECURSIVE WrapFromInclusive(_, _)
\* a variant whose range runs one step too far: range(0, len(seq) + 1, 60)
WrapFromInclusive(seq, i) ==
  IF i > Len(seq) THEN <<>>
  ELSE LET hi == IF i + LINE_WIDTH < Len(seq) THEN i + LINE_WIDTH ELSE Len(seq)
       IN <<SubSeq(seq, i + 1, hi)>> \o WrapFromInclusive(seq, i + LINE_WIDTH)

RECURSIVE WrapFrom(_, _)
\* for i in range(0, len(seq), 60): out.write(seq[i : i + 60] + "\n")
WrapFrom(seq, i) ==
  IF i >= Len(seq) THEN <<>>
  ELSE LET hi == IF i + LINE_WIDTH < Len(seq) THEN i + LINE_WIDTH ELSE Len(seq)
       IN <<SubSeq(seq, i + 1, hi)>> \o WrapFrom(seq, i + LINE_WIDTH)

Wrap(seq) == WrapFrom(seq, 0)

\* the lines one matched record adds to the output file
RecordLines(hdr, seq) == <<<<">">> \o hdr>> \o Wrap(seq)

RECURSIVE ParseFrom(_, _, _, _)
\* fasta_iterator as a function of the whole file: hdr is <<>> for None
\* and <<h>> for a header h; acc is seq_lines
ParseFrom(lines, i, hdr, acc) ==
  IF i > Len(lines)
  THEN IF hdr # <<>> THEN <<[header |-> hdr[1], seq |-> Join(acc)]>> ELSE <<>>
  ELSE IF StartsWithMarker(lines[i])
       THEN (IF hdr # <<>> THEN <<[header |-> hdr[1], seq |-> Join(acc)]>> ELSE <<>>)
            \o ParseFrom(lines, i + 1, <<Tail(lines[i])>>, <<>>)
       ELSE ParseFrom(lines, i + 1, hdr, Append(acc, lines[i]))

FastaIterator(lines) == ParseFrom(lines, 1, <<>>, <<>>)

\* ------------------------------------------------- sequence file contents
HdrS1 == <<">", "S", "1", " ", "d">>
HdrS2 == <<">", "S", "2">>
HdrEmpty == <<">">>
HdrBlank == <<">", " ">>
Full == Rep("A", LINE_WIDTH)
Over == Full \o <<">", "C">>
Short == Rep("C", 5)

FastaLines == {HdrS1, HdrS2, HdrEmpty, HdrBlank, Full, Over, Short}

FastaFiles == UNION {[1..n -> FastaLines] : n \in 0..MaxLines}

\* ------------------------------------------------------------------ state
VARIABLES
  raw,          \* the data rows of the --blast file, fields still text
  fasta,        \* the lines of the --fasta file
  pc,           \* position of main()
  status,       \* "running", "exit0" or "exit1" (uncaught exception)
  df,           \* the loaded table
  maskA, maskB, \* row positions selected by the two threshold masks
  list1, list2, \* the two arrays make_lists writes, one identifier per line
  set1, set2,   \* make_lists' return value
  common, only_a, only_b,   \* compare_lists' three sets
  shared,       \* main's shared set
  subset,       \* plot_heatmap's row sequence
  identity, evalue, labels, \* the two image columns and the tick labels
  gpc,          \* position of the fasta_iterator generator
  pos,          \* 1-based index of the next line of fh
  header,       \* <<>> for None, <<h>> for the header h
  seq_lines,
  yielded,      \* <<>> or <<record>>: the record handed to the for loop
  emitted,      \* every record yielded so far, with the line that ended it
  out,          \* the lines of the output sequence file
  written,      \* the records written, with their line range in out
  log           \* file opens/closes and console prints, in order

vars == <<raw, fasta, pc, status, df, maskA, maskB, list1, list2, set1, set2,
          common, only_a, only_b, shared, subset, identity, evalue, labels,
          gpc, pos, header, seq_lines, yielded, emitted, out, written, log>>

tableVars == <<df, maskA, maskB, list1, list2, set1, set2>>
compareVars == <<common, only_a, only_b>>
heatVars == <<subset, identity, evalue, labels>>
genVars == <<gpc, pos, header, seq_lines, yielded, emitted>>
outVars == <<out, written>>

Open(f) == [ev |-> "open", file |-> f]
Close(f) == [ev |-> "close", file |-> f]
Say(m) == [ev |-> "print", file |-> m]

\* ------------------------------------------------------------------- Init
InitRest ==
  /\ pc = "load"
  /\ status = "running"
  /\ df = <<>>
  /\ maskA = {} /\ maskB = {}
  /\ list1 = <<>> /\ list2 = <<>>
  /\ set1 = {} /\ set2 = {}
  /\ common = {} /\ only_a = {} /\ only_b = {}
  /\ shared = {}
  /\ subset = <<>> /\ identity = <<>> /\ evalue = <<>> /\ labels = <<>>
  /\ gpc = "unborn"
  /\ pos = 1
  /\ header = <<>>
  /\ seq_lines = <<>>
  /\ yielded = <<>>
  /\ emitted = <<>>
  /\ out = <<>>
  /\ written = <<>>
  /\ log = <<>>

SampleFasta == <<HdrS1, Short, HdrS2>>

BrokenFasta == <<HdrS1, Short, HdrBlank>>

SampleTable ==
  <<[subject_ID |-> S1, identity |-> "40.0", evalue |-> "1e-07"]>>

\* every table, one sequence file
Init ==
  /\ \/ raw \in RawTables /\ fasta = SampleFasta
     \/ raw = SampleTable /\ fasta = BrokenFasta
  /\ InitRest

\* every sequence file, with S1 shared (and the empty table once)
InitFasta ==
  /\ \/ raw = SampleTable /\ fasta \in FastaFiles
     \/ raw = <<>> /\ fasta = SampleFasta
  /\ InitRest

\* ------------------------------------------------------------------ main
\* load_blast_table: read_csv, then both numeric columns coerced
LoadBlastTable ==
  /\ pc = "load"
  /\ df' = [i \in 1..Len(raw) |-> LoadRow(raw[i])]
  /\ log' = log \o <<Open("blast"), Close("blast")>>
  /\ pc' = "make_lists"
  /\ UNCHANGED <<raw, fasta, status, maskA, maskB, list1, list2, set1, set2,
                 shared>>
  /\ UNCHANGED <<compareVars, heatVars, genVars, outVars>>

\* a variant of make_lists that holds both list files open at once
MakeListsBothOpen ==
  /\ pc = "make_lists"
  /\ maskA' = MaskIdentity(df)
  /\ maskB' = MaskEvalue(df)
  /\ list1' = Unique(Pick(df, MaskIdentity(df), 1))
  /\ list2' = Unique(Pick(df, MaskEvalue(df), 1))
  /\ set1' = Range(list1')
  /\ set2' = Range(list2')
  /\ log' = log \o <<Open("list1"), Open("list2"), Close("list2"), Close("list1")>>
  /\ pc' = "compare"
  /\ UNCHANGED <<raw, fasta, status, df, shared>>
  /\ UNCHANGED <<compareVars, heatVars, genVars, outVars>>

\* make_lists: each write_text opens, writes and closes its file
MakeLists ==
  /\ pc = "make_lists"
  /\ maskA' = MaskIdentity(df)
  /\ maskB' = MaskEvalue(df)
  /\ list1' = Unique(Pick(df, MaskIdentity(df), 1))
  /\ list2' = Unique(Pick(df, MaskEvalue(df), 1))
  /\ set1' = Range(list1')
  /\ set2' = Range(list2')
  /\ log' = log \o <<Open("list1"), Close("list1"), Open("list2"), Close("list2")>>
  /\ pc' = "compare"
  /\ UNCHANGED <<raw, fasta, status, df, shared>>
  /\ UNCHANGED <<compareVars, heatVars, genVars, outVars>>

\* compare_lists: the three sets, then the printed summary
CompareLists ==
  /\ pc = "compare"
  /\ common' = CommonOf(set1, set2)
  /\ only_a' = OnlyAOf(set1, set2)
  /\ only_b' = OnlyBOf(set1, set2)
  /\ log' = log \o <<Say("comparison")>>
  /\ pc' = "shared"
  /\ UNCHANGED <<raw, fasta, status, shared>>
  /\ UNCHANGED <<tableVars, heatVars, genVars, outVars>>

\* a variant without the early exit
SharedEmptyGoesOn ==
  /\ pc = "shared"
  /\ set1 \cap set2 = {}
  /\ shared' = set1 \cap set2
  /\ pc' = "heatmap"
  /\ UNCHANGED <<raw, fasta, status, log>>
  /\ UNCHANGED <<tableVars, compareVars, heatVars, genVars, outVars>>

\* shared = list1 & list2; if not shared: print, sys.exit()
SharedEmpty ==
  /\ pc = "shared"
  /\ set1 \cap set2 = {}
  /\ shared' = set1 \cap set2
  /\ log' = log \o <<Say("no shared hits")>>
  /\ status' = "exit0"
  /\ pc' = "exited"
  /\ UNCHANGED <<raw, fasta>>
  /\ UNCHANGED <<tableVars, compareVars, heatVars, genVars, outVars>>

SharedNonEmpty ==
  /\ pc = "shared"
  /\ set1 \cap set2 # {}
  /\ shared' = set1 \cap set2
  /\ pc' = "heatmap"
  /\ UNCHANGED <<raw, fasta, status, log>>
  /\ UNCHANGED <<tableVars, compareVars, heatVars, genVars, outVars>>

\* plot_heatmap: select, deduplicate, sort, take the columns, save
PlotHeatmap ==
  /\ pc = "heatmap"
  /\ subset' \in SortValues(DropDuplicates(IsIn(df, shared)))
  /\ identity' = [i \in 1..Len(subset') |-> subset'[i].identity]
  /\ evalue' = [i \in 1..Len(subset') |-> subset'[i].evalue]
  /\ labels' = [i \in 1..Len(subset') |-> subset'[i].subject_ID]
  /\ log' = log \o <<Open("heatmap"), Close("heatmap"), Say("heatmap saved")>>
  /\ pc' = "extract"
  /\ UNCHANGED <<raw, fasta, status, shared>>
  /\ UNCHANGED <<tableVars, compareVars, genVars, outVars>>

\* ---------------------------------------------------- extract_sequences
\* with out_fasta.open("w") as out: the file is created (or emptied); the
\* call fasta_iterator(fasta_path) only creates the generator
ExtractOpen ==
  /\ pc = "extract"
  /\ out' = <<>>
  /\ log' = log \o <<Open("fasta_out")>>
  /\ gpc' = "start"
  /\ pc' = "scan"
  /\ UNCHANGED <<raw, fasta, status, shared, written>>
  /\ UNCHANGED <<pos, header, seq_lines, yielded, emitted>>
  /\ UNCHANGED <<tableVars, compareVars, heatVars>>

\* the first next(): with path.open() as fh; header = None; seq_lines = []
GenStart ==
  /\ pc = "scan"
  /\ gpc = "start"
  /\ log' = log \o <<Open("fasta_in")>>
  /\ header' = <<>>
  /\ seq_lines' = <<>>
  /\ pos' = 1
  /\ gpc' = "loop"
  /\ UNCHANGED <<raw, fasta, pc, status, shared, yielded, emitted>>
  /\ UNCHANGED <<tableVars, compareVars, heatVars, outVars>>

\* the record the generator holds: (header, "".join(seq_lines))
Current == [header |-> header[1], seq |-> Join(seq_lines)]

Emit(at) == [header |-> header[1], seq |-> Join(seq_lines), at |-> at]

\* a variant that forgets seq_lines = [] when a record starts
GenReadLineKeepsLines ==
  /\ pc = "scan"
  /\ gpc = "loop"
  /\ pos <= Len(fasta)
  /\ IF StartsWithMarker(fasta[pos])
     THEN IF header # <<>>
          THEN /\ yielded' = <<Current>>
               /\ emitted' = Append(emitted, Emit(pos))
               /\ gpc' = "yield_next"
               /\ UNCHANGED <<pos, header, seq_lines>>
          ELSE /\ header' = <<Tail(fasta[pos])>>
               /\ pos' = pos + 1
               /\ UNCHANGED <<gpc, yielded, emitted, seq_lines>>
     ELSE /\ seq_lines' = Append(seq_lines, fasta[pos])
          /\ pos' = pos + 1
          /\ UNCHANGED <<gpc, header, yielded, emitted>>
  /\ UNCHANGED <<raw, fasta, pc, status, shared, log>>
  /\ UNCHANGED <<tableVars, compareVars, heatVars, outVars>>

\* one turn of "for line in fh", up to the yield if the line ends a record
GenReadLine ==
  /\ pc = "scan"
  /\ gpc = "loop"
  /\ pos <= Len(fasta)
  /\ IF StartsWithMarker(fasta[pos])
     THEN IF header # <<>>
          THEN /\ yielded' = <<Current>>
               /\ emitted' = Append(emitted, Emit(pos))
               /\ gpc' = "yield_next"
               /\ UNCHANGED <<pos, header, seq_lines>>
          ELSE /\ header' = <<Tail(fasta[pos])>>
               /\ seq_lines' = <<>>
               /\ pos' = pos + 1
               /\ UNCHANGED <<gpc, yielded, emitted>>
     ELSE /\ seq_lines' = Append(seq_lines, fasta[pos])
          /\ pos' = pos + 1
          /\ UNCHANGED <<gpc, header, yielded, emitted>>
  /\ UNCHANGED <<raw, fasta, pc, status, shared, log>>
  /\ UNCHANGED <<tableVars, compareVars, heatVars, outVars>>

\* the for loop over fh is exhausted: the last record, if any, is yielded;
\* with none the with-block closes fh and the generator returns
GenEOF ==
  /\ pc = "scan"
  /\ gpc = "loop"
  /\ pos > Len(fasta)
  /\ IF header # <<>>
     THEN /\ yielded' = <<Current>>
          /\ emitted' = Append(emitted, Emit(pos))
          /\ gpc' = "yield_eof"
          /\ UNCHANGED log
     ELSE /\ gpc' = "closed"
          /\ log' = log \o <<Close("fasta_in")>>
          /\ UNCHANGED <<yielded, emitted>>
  /\ UNCHANGED <<raw, fasta, pc, status, shared, pos, header, seq_lines>>
  /\ UNCHANGED <<tableVars, compareVars, heatVars, outVars>>

\* a variant that takes the whole header for the identifier
PrimaryIdWholeHeader(h) == h
\* primary_id = header.split()[0]
PrimaryId(h) == Split(h)[1]

\* the loop body of extract_sequences on a record whose header has a token
ExtractRecord ==
  /\ pc = "scan"
  /\ yielded # <<>>
  /\ Split(yielded[1].header) # <<>>
  /\ IF PrimaryId(yielded[1].header) \in shared
     THEN /\ out' = out \o RecordLines(yielded[1].header, yielded[1].seq)
          /\ written' = Append(written,
                [header |-> yielded[1].header, seq |-> yielded[1].seq,
                 first |-> Len(out) + 1, last |-> Len(out')])
     ELSE UNCHANGED <<out, written>>
  /\ yielded' = <<>>
  /\ UNCHANGED <<raw, fasta, pc, status, shared, log>>
  /\ UNCHANGED <<gpc, pos, header, seq_lines, emitted>>
  /\ UNCHANGED <<tableVars, compareVars, heatVars>>

\* header.split() is [] for an empty or all-blank header: [0] raises
\* IndexError, the with-block closes out, main ends with the exception
ExtractIndexError ==
  /\ pc = "scan"
  /\ yielded # <<>>
  /\ Split(yielded[1].header) = <<>>
  /\ log' = log \o <<Close("fasta_out")>>
  /\ status' = "exit1"
  /\ pc' = "failed"
  /\ UNCHANGED <<raw, fasta, shared>>
  /\ UNCHANGED <<tableVars, compareVars, heatVars, genVars, outVars>>

\* the next next(): the generator goes on after its yield
GenResume ==
  /\ pc = "scan"
  /\ yielded = <<>>
  /\ \/ /\ gpc = "yield_next"
        /\ header' = <<Tail(fasta[pos])>>
        /\ seq_lines' = <<>>
        /\ pos' = pos + 1
        /\ gpc' = "loop"
        /\ UNCHANGED log
     \/ /\ gpc = "yield_eof"
        /\ gpc' = "closed"
        /\ log' = log \o <<Close("fasta_in")>>
        /\ UNCHANGED <<pos, header, seq_lines>>
  /\ UNCHANGED <<raw, fasta, pc, status, shared, yielded, emitted>>
  /\ UNCHANGED <<tableVars, compareVars, heatVars, outVars>>

\* StopIteration ends the for loop, the with-block closes out, main prints
ExtractClose ==
  /\ pc = "scan"
  /\ gpc = "closed"
  /\ log' = log \o <<Close("fasta_out"), Say("fasta written")>>
  /\ status' = "exit0"
  /\ pc' = "done"
  /\ UNCHANGED <<raw, fasta, shared>>
  /\ UNCHANGED <<tableVars, compareVars, heatVars, genVars, outVars>>

\* after the exception the suspended generator is finalised (close()):
\* GeneratorExit leaves its with-block, which closes fh
GenFinalize ==
  /\ pc = "failed"
  /\ gpc \in {"yield_next", "yield_eof"}
  /\ gpc' = "finalized"
  /\ log' = log \o <<Close("fasta_in")>>
  /\ UNCHANGED <<raw, fasta, pc, status, shared>>
  /\ UNCHANGED <<pos, header, seq_lines, yielded, emitted>>
  /\ UNCHANGED <<tableVars, compareVars, heatVars, outVars>>

Next ==
  \/ LoadBlastTable
  \/ MakeLists
  \/ CompareLists
  \/ SharedEmpty
  \/ SharedNonEmpty
  \/ PlotHeatmap
  \/ ExtractOpen
  \/ GenStart
  \/ GenReadLine
  \/ GenEOF
  \/ ExtractRecord
  \/ ExtractIndexError
  \/ GenResume
  \/ ExtractClose
  \/ GenFinalize

Spec == Init /\ [][Next]_vars

SpecFasta == InitFasta /\ [][Next]_vars

\* ================================================================ claims
AfterMakeLists == pc \notin {"load", "make_lists"}
AfterCompare == AfterMakeLists /\ pc # "compare"
AfterShared == AfterCompare /\ pc # "shared"
AfterHeatmap == pc \in {"extract", "scan", "done", "failed"}

\* rows that meet a criterion, stated on the loaded table
RowsA == {i \in 1..Len(df) : df[i].identity # NaN /\ df[i].identity >= 35}
RowsB == {i \in 1..Len(df) : df[i].evalue # NaN /\ df[i].evalue <= 100}

FirstRow(rows, id) ==
  CHOOSE i \in rows :
    /\ df[i].subject_ID = id
    /\ \A j \in rows : df[j].subject_ID = id => i <= j

DistinctInOrder(list, rows) ==
  /\ Range(list) = {df[i].subject_ID : i \in rows}
  /\ \A i, j \in 1..Len(list) : i # j => list[i] # list[j]
  /\ \A i, j \in 1..Len(list) :
       i < j => FirstRow(rows, list[i]) < FirstRow(rows, list[j])

\* C1: once make_lists has run, List A is the distinct subject identifiers
\* of the rows with non-missing identity >= 35.0 and List B those of the
\* rows with non-missing e-value <= 1e-7, nothing else, each identifier
\* once, in the order of its first qualifying row; the returned sets are
\* the lists' elements.
C1_ListsAreDistinctQualifying ==
  AfterMakeLists =>
    /\ DistinctInOrder(list1, RowsA)
    /\ DistinctInOrder(list2, RowsB)
    /\ set1 = Range(list1)
    /\ set2 = Range(list2)

\* a table of three qualifying rows, S2's before S1's, S1 referenced twice
C1_Witness ==
  /\ pc = "compare"
  /\ Cardinality(RowsA) = 3
  /\ list1 = <<S2, S1>>
  /\ list2 = <<S1>>

\* C2 as stated: a row with a missing identity or a missing e-value is
\* selected by neither mask, and the run has not failed.
C2_MissingRowInNeitherList ==
  AfterMakeLists =>
    /\ \A i \in 1..Len(df) :
         (df[i].identity = NaN \/ df[i].evalue = NaN)
           => i \notin maskA /\ i \notin maskB
    /\ (pc = "compare" => status = "running")

\* C2 amended: a field that fails coercion becomes the missing marker; a
\* row with a missing identity is not selected for List A and a row with a
\* missing e-value is not selected for List B (its other field still
\* decides the other list); the run has not failed.
C2_MissingFieldFailsItsOwnFilter ==
  AfterMakeLists =>
    /\ \A i \in 1..Len(df) :
         /\ raw[i].identity = "n/a" => df[i].identity = NaN /\ i \notin maskA
         /\ raw[i].evalue = "n/a" => df[i].evalue = NaN /\ i \notin maskB
         /\ i \in maskA => df[i].identity >= 35
         /\ i \in maskB => df[i].evalue <= 100
    /\ (pc = "compare" => status = "running")

\* a row whose identity is missing and whose e-value gets it into List B,
\* next to a row whose e-value is missing
C2_Witness ==
  /\ pc = "compare"
  /\ \E i \in 1..Len(df) :
       raw[i].identity = "n/a" /\ i \in maskB /\ df[i].subject_ID \in set2
  /\ \E i \in 1..Len(df) : raw[i].evalue = "n/a" /\ i \notin maskB

\* C7: common, only_a and only_b are A & B, A - B and B - A, pairwise
\* disjoint, with union A | B and cardinalities adding up to |A | B|; the
\* shared set main goes on with equals common.
C7_ComparatorPartition ==
  AfterCompare =>
    /\ common = set1 \cap set2
    /\ only_a = set1 \ set2
    /\ only_b = set2 \ set1
    /\ common \cap only_a = {}
    /\ common \cap only_b = {}
    /\ only_a \cap only_b = {}
    /\ common \cup only_a \cup only_b = set1 \cup set2
    /\ Cardinality(common) + Cardinality(only_a) + Cardinality(only_b)
         = Cardinality(set1 \cup set2)
    /\ (AfterShared => shared = common)

\* the scenario of the three rows: each of the three sets has one element
C7_Witness ==
  /\ pc = "heatmap"
  /\ common = {S1}
  /\ only_a = {S3}
  /\ only_b = {S2}
  /\ shared = {S1}

FirstOf(id) ==
  CHOOSE i \in 1..Len(df) :
    df[i].subject_ID = id /\ \A j \in 1..Len(df) : df[j].subject_ID = id => i <= j

\* one row per shared identifier, each the first table row of its subject,
\* and the three columns read off the same rows
OneFirstRowEach ==
  /\ Len(subset) = Cardinality(shared)
  /\ {subset[k].subject_ID : k \in 1..Len(subset)} = shared
  /\ \A k \in 1..Len(subset) : subset[k] = df[FirstOf(subset[k].subject_ID)]
  /\ Len(identity) = Len(subset)
  /\ Len(evalue) = Len(subset)
  /\ Len(labels) = Len(subset)
  /\ \A k \in 1..Len(subset) :
       /\ identity[k] = subset[k].identity
       /\ evalue[k] = subset[k].evalue
       /\ labels[k] = subset[k].subject_ID

\* descending identity, rows with a missing identity last in table order
DescendingNaNLast ==
  \A k, l \in 1..Len(subset) :
    k < l =>
      /\ identity[k] = NaN => identity[l] = NaN
      /\ identity[l] # NaN => identity[k] >= identity[l]
      /\ (identity[k] = NaN /\ identity[l] = NaN)
           => FirstOf(labels[k]) < FirstOf(labels[l])

\* rows of equal identity in table order
TiesInTableOrder ==
  \A k, l \in 1..Len(subset) :
    (k < l /\ identity[k] = identity[l]) => FirstOf(labels[k]) < FirstOf(labels[l])

\* C9 as stated: one first row per shared identifier, descending identity,
\* equal identities in table order, the columns in that row order.
C9_StableDescending ==
  AfterHeatmap => OneFirstRowEach /\ DescendingNaNLast /\ TiesInTableOrder

\* C9 amended: one first row per shared identifier (qualifying or not),
\* descending identity with the missing identities last in table order, the
\* columns in that row order; nothing is said of rows of equal identity.
C9_FirstRowsDescending ==
  AfterHeatmap => OneFirstRowEach /\ DescendingNaNLast

\* S1's first row meets neither threshold; it is rendered below S2's row
C9_Witness ==
  /\ pc = "extract"
  /\ Len(subset) = 2
  /\ labels = <<S2, S1>>
  /\ identity = <<35, 30>>
  /\ df[1].subject_ID = S1
  /\ 1 \notin maskA \cup maskB

\* ----------------------------------------------------------- the run log
Produced ==
  {log[i].file : i \in {j \in 1..Len(log) : log[j].ev = "open"}}
    \cap {"list1", "list2", "heatmap", "fasta_out"}

Earlier(e, j) == \E i \in 1..(j - 1) : log[i] = e

\* C6: both list files are written before the comparison is printed; with
\* an empty shared set main prints the notice and exits 0 having produced
\* the two list files only; with a non-empty one the heat-map is written
\* before the output sequence file is opened.
C6_MainOrder ==
  /\ \A j \in 1..Len(log) :
       log[j] = Say("comparison")
         => Earlier(Close("list1"), j) /\ Earlier(Close("list2"), j)
  /\ \A j \in 1..Len(log) :
       log[j] = Open("fasta_out")
         => Earlier(Open("heatmap"), j) /\ Earlier(Close("heatmap"), j)
  /\ (AfterShared /\ set1 \cap set2 = {}) =>
       /\ pc = "exited"
       /\ status = "exit0"
       /\ Last(log) = Say("no shared hits")
       /\ Produced = {"list1", "list2"}
  /\ (AfterShared /\ set1 \cap set2 # {}) => pc # "exited"
  /\ (AfterHeatmap => "heatmap" \in Produced /\ set1 \cap set2 # {})
  /\ (pc \in {"scan", "done", "failed"} => "fasta_out" \in Produced)

\* both lists non-empty, nothing shared: the early exit
C6_Witness ==
  /\ pc = "exited"
  /\ set1 # {}
  /\ set2 # {}
  /\ Len(log) = 8

\* ------------------------------------------------------ the sequence file
HeaderLines == {i \in 1..Len(fasta) : StartsWithMarker(fasta[i])}

KthHeader(k) ==
  CHOOSE i \in HeaderLines : Cardinality({j \in HeaderLines : j < i}) = k - 1

\* the line that ends the record starting at line i: the next header line,
\* or one past the last line
EndOf(i) ==
  IF \E j \in HeaderLines : j > i
  THEN CHOOSE j \in HeaderLines : j > i /\ \A l \in HeaderLines : l > i => j <= l
  ELSE Len(fasta) + 1

Body(i) == Join(SubSeq(fasta, i + 1, EndOf(i) - 1))

\* C8: the iterator has two states (no header seen yet / in a record); it
\* yields one record per header line, in file order, whose sequence is the
\* concatenation of the lines between that header line and the next one or
\* the end of input; a record is yielded exactly when that next header line
\* or the end of input is read; lines before the first header are in no
\* record, and without a header line nothing is yielded.
C8_IteratorRecords ==
  /\ Len(emitted) <= Cardinality(HeaderLines)
  /\ \A k \in 1..Len(emitted) :
       /\ emitted[k].header = Tail(fasta[KthHeader(k)])
       /\ emitted[k].seq = Body(KthHeader(k))
       /\ emitted[k].at = EndOf(KthHeader(k))
  /\ (gpc \in {"unborn", "start"} => emitted = <<>>)
  /\ (gpc = "loop" =>
        /\ Len(emitted) = Cardinality({h \in HeaderLines : EndOf(h) < pos})
        /\ (header = <<>>) = (HeaderLines \cap 1..(pos - 1) = {})
        /\ header # <<>> =>
             \E h \in HeaderLines :
               /\ h < pos /\ EndOf(h) >= pos
               /\ header[1] = Tail(fasta[h])
               /\ seq_lines = SubSeq(fasta, h + 1, pos - 1))
  /\ (gpc = "yield_next" =>
        /\ pos \in HeaderLines
        /\ Len(emitted) = Cardinality({h \in HeaderLines : EndOf(h) <= pos}))
  /\ (gpc \in {"yield_eof", "closed"} => Len(emitted) = Cardinality(HeaderLines))

\* a file that starts with a stray sequence line: two records, the first
\* with a full line, the last one ended by the end of input
C8_Witness ==
  /\ gpc = "closed"
  /\ pc = "done"
  /\ Len(emitted) = 2
  /\ ~StartsWithMarker(fasta[1])
  /\ emitted[1].seq = Full
  /\ emitted[2].at = Len(fasta) + 1

\* the primary identifiers of the input records, from the header lines
HasToken(h) == Split(h) # <<>>
InputIds(upto) ==
  [k \in 1..upto |->
     IF HasToken(Tail(fasta[KthHeader(k)]))
     THEN Split(Tail(fasta[KthHeader(k)]))[1] ELSE <<>>]

Count(ids, id) == Cardinality({k \in 1..Len(ids) : ids[k] = id})

WrittenIds == [k \in 1..Len(written) |-> Split(written[k].header)[1]]

\* the records the loop body has dealt with
Handled == Len(emitted) - Len(yielded)

\* C3 as stated: when extract_sequences is done, every record written has
\* its primary identifier in the shared set, and every shared identifier
\* that is the primary identifier of some input record is the primary
\* identifier of exactly one output record.
C3_EachSharedIdExactlyOnce ==
  pc = "done" =>
    /\ \A k \in 1..Len(written) : WrittenIds[k] \in shared
    /\ \A id \in shared :
         Count(InputIds(Cardinality(HeaderLines)), id) >= 1
           => Count(WrittenIds, id) = 1

\* C3 amended: every record written has its primary identifier in the
\* shared set; every input record the loop has dealt with whose primary
\* identifier is shared has been written once, in input order, so that a
\* shared identifier is the primary identifier of as many output records as
\* of input records dealt with (all of them once the scan is done); the
\* output file holds these records' lines and nothing else.
C3_EveryMatchingRecordOnce ==
  /\ \A k \in 1..Len(written) : HasToken(written[k].header) /\ WrittenIds[k] \in shared
  /\ LET ids == InputIds(Handled)
         hit == {k \in 1..Handled : ids[k] \in shared}
     IN /\ Len(written) = Cardinality(hit)
        /\ \A id \in shared : Count(WrittenIds, id) = Count(ids, id)
        /\ \A n \in 1..Len(written) :
             LET k == CHOOSE k \in hit : Cardinality({j \in hit : j < k}) = n - 1
             IN /\ written[n].header = emitted[k].header
                /\ written[n].seq = emitted[k].seq
  /\ (pc = "done" => Handled = Cardinality(HeaderLines))
  /\ Len(out) = (IF written = <<>> THEN 0 ELSE written[Len(written)].last)
  /\ \A n \in 1..Len(written) :
       /\ written[n].first = (IF n = 1 THEN 1 ELSE written[n - 1].last + 1)
       /\ out[written[n].first] = <<">">> \o written[n].header

\* two input records carry S1, one carries S2, which is not shared
C3_Witness ==
  /\ pc = "done"
  /\ shared = {S1}
  /\ Count(WrittenIds, S1) = 2
  /\ Count(InputIds(Cardinality(HeaderLines)), S2) = 1

\* C4: no record whose header yields no shared identifier raises an error:
\* it is skipped and the scan goes on to the end of the input; with no
\* match the output file is created and stays empty.
C4_UnmatchedRecordsAreSkipped ==
  /\ status # "exit1"
  /\ pc # "failed"
  /\ (pc = "done" => Handled = Cardinality(HeaderLines))
  /\ (pc = "done" /\ written = <<>> => out = <<>> /\ "fasta_out" \in Produced)

\* the lines of the k-th written record in the output file
LinesOf(k) == SubSeq(out, written[k].first, written[k].last)

\* the body lines concatenate to the sequence, every line but the last has
\* 60 characters and the last 1 to 60, 60*k characters give k lines
WrappedAt60(k) ==
  LET body == Tail(LinesOf(k))
  IN /\ Head(LinesOf(k)) = <<">">> \o written[k].header
     /\ Join(body) = written[k].seq
     /\ \A i \in 1..(Len(body) - 1) : Len(body[i]) = 60
     /\ body # <<>> => Len(Last(body)) \in 1..60
     /\ Len(written[k].seq) % 60 = 0 => Len(body) = Len(written[k].seq) \div 60

\* reading the written record with fasta_iterator and writing it again
\* gives the same header line and the same body lines
ReadBackSame(k) ==
  LET again == FastaIterator(LinesOf(k))
  IN /\ Len(again) = 1
     /\ again[1].header = written[k].header
     /\ again[1].seq = written[k].seq
     /\ RecordLines(again[1].header, again[1].seq) = LinesOf(k)

\* C5 as stated: every written record is wrapped at 60 as described and
\* reads back, through fasta_iterator and the writer, as the same lines.
C5_WrapRoundTrip ==
  \A k \in 1..Len(written) : WrappedAt60(k) /\ ReadBackSame(k)

\* C5 amended: every written record is wrapped at 60 as described; joining
\* its body lines and wrapping them again gives the same body lines; and
\* it reads back through fasta_iterator and the writer as the same lines
\* whenever none of its body lines begins with the header marker ">".
C5_WrapAndRewrap ==
  \A k \in 1..Len(written) :
    LET body == Tail(LinesOf(k))
    IN /\ WrappedAt60(k)
       /\ Wrap(Join(body)) = body
       /\ (\A i \in 1..Len(body) : ~StartsWithMarker(body[i])) => ReadBackSame(k)

\* the 125-character sequence: two lines of 60 and one of 5
C5_Witness ==
  /\ pc = "done"
  /\ Len(written) = 1
  /\ Len(written[1].seq) = 125
  /\ Len(out) = 4
  /\ Len(out[2]) = 60 /\ Len(out[3]) = 60 /\ Len(out[4]) = 5

\* ------------------------------------------------------------ file handles
OpenAt(j) ==
  {f \in {"blast", "list1", "list2", "heatmap", "fasta_in", "fasta_out"} :
     \E i \in 1..j :
       log[i] = Open(f) /\ \A k \in i..j : log[k] # Close(f)}

\* C10 as stated: at every point of the run at most one file is open.
C10_AtMostOneHandle ==
  \A j \in 0..Len(log) : Cardinality(OpenAt(j)) <= 1

\* C10 amended: the alignment table, the two list files and the image are
\* each opened and closed with no other file open; extract_sequences opens
\* the output sequence file, then the input sequence file, and holds both
\* during the scan, so that at most two files are open and two only then;
\* the input is closed first when the scan ends, and a run that ends
\* without an exception leaves no file open.
C10_TwoHandlesOnlyWhileExtracting ==
  /\ \A j \in 0..Len(log) :
       /\ Cardinality(OpenAt(j)) <= 2
       /\ Cardinality(OpenAt(j)) = 2 => OpenAt(j) = {"fasta_in", "fasta_out"}
  /\ \A j \in 1..Len(log) :
       /\ log[j] = Open("fasta_in") => OpenAt(j - 1) = {"fasta_out"}
       /\ log[j] = Open("fasta_out") => OpenAt(j - 1) = {}
       /\ log[j].ev = "open" /\ log[j].file \notin {"fasta_in", "fasta_out"}
            => j < Len(log) /\ log[j + 1] = Close(log[j].file)
  /\ (pc = "scan" /\ gpc \in {"loop", "yield_next", "yield_eof"}
        => OpenAt(Len(log)) = {"fasta_in", "fasta_out"})
  /\ (pc \in {"done", "exited"} => OpenAt(Len(log)) = {})
  /\ (pc = "done" =>
        \E i, j \in 1..Len(log) :
          i < j /\ log[i] = Close("fasta_in") /\ log[j] = Close("fasta_out"))

\* a record has been written while both sequence files are open
C10_Witness ==
  /\ pc = "scan"
  /\ written # <<>>
  /\ OpenAt(Len(log)) = {"fasta_in", "fasta_out"}

====
